---- MODULE Spec2Model ----
(***************************************************************************)
(* A model of decompress_inf.py: the string-table loaders, the two binary  *)
(* INF parsers (BinaryInfParser, SimpleInfParser), the dialect heuristic   *)
(* is_simple_format and the single-file driver decompress_inf.             *)
(*                                                                         *)
(* Bytes are numbers 0..255, buffers are sequences of bytes (1-based in    *)
(* TLA+, 0-based offsets in the source: offset o is element o+1).  Text is *)
(* a sequence of code points.  An exception is a record with a "type".     *)
(***************************************************************************)
EXTENDS Integers, Sequences, FiniteSets, TLC

VARIABLES self, input, file, run, batch, other

vars == <<self, input, file, run, batch, other>>

\* ------------------------------------------------------------------------
\* Bounds of the model
\* ------------------------------------------------------------------------

\* Objects per container section in the generated documents.
MaxObjs == 2
\* Child sections per object in the generated documents.
MaxSecs == 2
\* Bytes cut from the end of a buffer in the truncated inputs.
MaxCut == 14

\* ------------------------------------------------------------------------
\* Python primitives
\* ------------------------------------------------------------------------

Min(a, b) == IF a < b THEN a ELSE b

\* data[a:b] for 0 <= a, b: the slice is clamped to the buffer, never raises.
Slice(data, a, b) == SubSeq(data, Min(a, Len(data)) + 1, Min(b, Len(data)))

\* struct.unpack('<I', bs)[0]; the caller checks Len(bs) = 4 first.  A value of
\* 2^31 or more is held as 2^31 - 1, the largest integer TLC has: every buffer
\* is far shorter, so the comparisons with lengths and offsets the code makes
\* come out as they do on the value itself.
LE32(bs) ==
    IF bs[4] >= 128 THEN 2147483647
    ELSE bs[1] + 256 * bs[2] + 65536 * bs[3] + 16777216 * bs[4]

\* struct.pack('<I', v), used only to lay out the generated inputs.
Pack32(v) ==
    <<v % 256, (v \div 256) % 256, (v \div 65536) % 256, (v \div 16777216) % 256>>

\* data.find(b'\x00', pos): the first offset >= pos holding a zero byte, or -1.
Find0(data, pos) ==
    LET hits == {i \in pos..(Len(data) - 1) : data[i + 1] = 0}
    IN  IF hits = {} THEN -1 ELSE CHOOSE i \in hits : \A j \in hits : i <= j

\* bytes.decode('utf-8', errors='replace') for the bytes the inputs use: an
\* ASCII byte is its own code point, any other byte decodes to U+FFFD.
DecodeUtf8(bs) == [i \in 1..Len(bs) |-> IF bs[i] < 128 THEN bs[i] ELSE 65533]

\* The UTF-16 code units of an even-length byte string, little-endian.
Units16(bs) == [i \in 1..(Len(bs) \div 2) |-> bs[2 * i - 1] + 256 * bs[2 * i]]

IsHighSurrogate(u) == 55296 <= u /\ u <= 56319
IsLowSurrogate(u) == 56320 <= u /\ u <= 57343

\* bytes.decode('utf-16le'): <<TRUE, text>>, or <<FALSE, <<>>>> when the codec
\* raises (a surrogate that is not half of a high/low pair).
RECURSIVE DecodeUnits(_, _, _)
DecodeUnits(us, i, acc) ==
    IF i > Len(us) THEN <<TRUE, acc>>
    ELSE IF IsHighSurrogate(us[i])
         THEN IF i < Len(us) /\ IsLowSurrogate(us[i + 1])
              THEN DecodeUnits(us, i + 2,
                       Append(acc, 65536 + (us[i] - 55296) * 1024 + (us[i + 1] - 56320)))
              ELSE <<FALSE, <<>>>>
         ELSE IF IsLowSurrogate(us[i]) THEN <<FALSE, <<>>>>
         ELSE DecodeUnits(us, i + 1, Append(acc, us[i]))

DecodeUtf16(bs) == DecodeUnits(Units16(bs), 1, <<>>)

\* str(n) for n >= 0, as code points.
RECURSIVE Decimal(_)
Decimal(n) == IF n < 10 THEN <<48 + n>> ELSE Append(Decimal(n \div 10), 48 + (n % 10))

\* Text literals (code points).
T_RefID == <<95, 82, 101, 102, 73, 68>>                         \* _RefID
T_string_ == <<60, 115, 116, 114, 105, 110, 103, 95>>           \* <string_
T_wstring_ == <<60, 119, 115, 116, 114, 105, 110, 103, 95>>     \* <wstring_
T_wstringAt == <<60, 119, 115, 116, 114, 105, 110, 103, 64>>    \* <wstring@
T_invalid == <<60, 105, 110, 118, 97, 108, 105, 100, 58>>       \* <invalid:
T_blob == <<60, 98, 108, 111, 98, 58>>                          \* <blob:
T_gt == <<62>>                                                  \* >
T_sep == <<32, 58, 32>>                                         \* " : "

\* ------------------------------------------------------------------------
\* String tables
\* ------------------------------------------------------------------------

\* The for-loop of _load_string_tables / _load_strings over the UTF-8 strings:
\* n strings left to read at pos; stops early when no terminator is found.
\* Returns the table read and the position reached.
RECURSIVE ReadStrings(_, _, _, _)
ReadStrings(data, pos, n, acc) ==
    IF n = 0 THEN [strings |-> acc, pos |-> pos]
    ELSE LET end == Find0(data, pos)
         IN  IF end = -1 THEN [strings |-> acc, pos |-> pos]
             ELSE ReadStrings(data, end + 1, n - 1,
                      Append(acc, DecodeUtf8(Slice(data, pos, end))))

\* The for-loop over the wide strings: each is a u32 character count and twice
\* as many bytes; stops early when either would pass the end of the buffer.
RECURSIVE ReadWStrings(_, _, _, _)
ReadWStrings(data, pos, n, acc) ==
    IF n = 0 \/ pos + 4 > Len(data) THEN acc
    ELSE LET char_count == LE32(Slice(data, pos, pos + 4))
             byte_len == char_count * 2
             start == pos + 4
             dec == DecodeUtf16(Slice(data, start, start + byte_len))
         IN  IF start + byte_len > Len(data) THEN acc
             ELSE ReadWStrings(data, start + byte_len, n - 1,
                      Append(acc, IF dec[1] THEN dec[2]
                                  ELSE T_wstringAt \o Decimal(start) \o T_gt))

\* BinaryInfParser._load_string_tables: the tables, or the exception raised.
LoadStringTables(data) ==
    IF Len(data) < 4
    THEN [ok |-> FALSE, exc |-> [type |-> "struct.error"]]
    ELSE LET sto == LE32(Slice(data, 0, 4))
         IN  IF sto < 16 \/ sto >= Len(data)
             THEN [ok |-> FALSE, exc |-> [type |-> "ValueError", what |-> "offset", sto |-> sto]]
             ELSE IF Len(Slice(data, sto, sto + 4)) # 4
             THEN [ok |-> FALSE, exc |-> [type |-> "struct.error"]]
             ELSE LET str_count == LE32(Slice(data, sto, sto + 4))
                      s == ReadStrings(data, sto + 4, str_count, <<>>)
                  IN  [ok |-> TRUE,
                       strings |-> s.strings,
                       wstrings |->
                           IF s.pos + 8 <= Len(data)
                           THEN ReadWStrings(data, s.pos + 4,
                                    LE32(Slice(data, s.pos, s.pos + 4)), <<>>)
                           ELSE <<>>]

\* SimpleInfParser._load_strings: no check of the offset at all.
LoadStrings(data) ==
    IF Len(data) < 4
    THEN [ok |-> FALSE, exc |-> [type |-> "struct.error"]]
    ELSE LET sto == LE32(Slice(data, 0, 4))
         IN  IF Len(Slice(data, sto, sto + 4)) # 4
             THEN [ok |-> FALSE, exc |-> [type |-> "struct.error"]]
             ELSE [ok |-> TRUE,
                   strings |-> ReadStrings(data, sto + 4,
                                   LE32(Slice(data, sto, sto + 4)), <<>>).strings,
                   wstrings |-> <<>>]

\* get_str with its lower bound off by one.
get_str_from_1(strings, idx) ==
    IF 0 < idx /\ idx < Len(strings) THEN strings[idx + 1]
    ELSE T_string_ \o Decimal(idx) \o T_gt

\* BinaryInfParser.get_str
get_str(strings, idx) ==
    IF 0 <= idx /\ idx < Len(strings) THEN strings[idx + 1]
    ELSE T_string_ \o Decimal(idx) \o T_gt

\* BinaryInfParser.get_wstr
get_wstr(wstrings, idx) ==
    IF 0 <= idx /\ idx < Len(wstrings) THEN wstrings[idx + 1]
    ELSE T_wstring_ \o Decimal(idx) \o T_gt

\* SimpleInfParser.get_str
simple_get_str(strings, idx) ==
    IF 0 <= idx /\ idx < Len(strings) THEN strings[idx + 1]
    ELSE T_invalid \o Decimal(idx) \o T_gt

\* ------------------------------------------------------------------------
\* Reads at the cursor
\* ------------------------------------------------------------------------

\* u8(): data[self.pos] raises IndexError at or past the end of the buffer.
U8(data, pos) ==
    IF pos < Len(data)
    THEN [ok |-> TRUE, val |-> data[pos + 1], pos |-> pos + 1]
    ELSE [ok |-> FALSE, exc |-> [type |-> "IndexError"]]

\* u32(): struct.unpack raises struct.error on a slice shorter than 4 bytes.
U32(data, pos) ==
    IF Len(Slice(data, pos, pos + 4)) = 4
    THEN [ok |-> TRUE, val |-> LE32(Slice(data, pos, pos + 4)), pos |-> pos + 4]
    ELSE [ok |-> FALSE, exc |-> [type |-> "struct.error"]]

\* f64(): the value is kept as its 8 bytes (IEEE-754 binary64, little-endian).
F64(data, pos) ==
    IF Len(Slice(data, pos, pos + 8)) = 8
    THEN [ok |-> TRUE, val |-> Slice(data, pos, pos + 8), pos |-> pos + 8]
    ELSE [ok |-> FALSE, exc |-> [type |-> "struct.error"]]

\* ------------------------------------------------------------------------
\* Doubles
\* ------------------------------------------------------------------------

\* The biased exponent (11 bits) of a binary64 given as 8 little-endian bytes.
F64Exp(b) == (b[8] % 128) * 16 + (b[7] \div 16)

\* Bit i (0 = least significant) of the 52-bit fraction.
F64Bit(b, i) == (b[(i \div 8) + 1] \div (2 ^ (i % 8))) % 2

\* The fraction, most significant byte first (the first holds 4 bits).
F64Frac(b) == <<b[7] % 16, b[6], b[5], b[4], b[3], b[2], b[1]>>

\* Lexicographic a < b for byte strings of equal length.
LexLess(a, b) ==
    \E i \in 1..Len(a) : a[i] < b[i] /\ \A j \in 1..(i - 1) : a[j] = b[j]

\* 1e15 = 0x430C6BF526340000: exponent 49, this fraction.
Frac1e15 == <<12, 107, 245, 38, 52, 0, 0>>

F64IsFinite(b) == F64Exp(b) # 2047

\* v == int(v) for a finite v.
F64IsIntegral(b) ==
    LET e == F64Exp(b) - 1023
    IN  IF F64Exp(b) = 0 THEN \A i \in 0..51 : F64Bit(b, i) = 0
        ELSE e >= 0 /\ \A i \in 0..51 : (i < 52 - e) => F64Bit(b, i) = 0

\* abs(v) < 1e15 for a finite v.
F64Below1e15(b) ==
    LET e == F64Exp(b) - 1023
    IN  e < 49 \/ (e = 49 /\ LexLess(F64Frac(b), Frac1e15))

\* BinaryInfParser.fmt_double: int(v) raises on an infinity or a NaN; the
\* rendering is kept as its kind and the value's bytes.
fmt_double(b) ==
    IF ~F64IsFinite(b) THEN [ok |-> FALSE, exc |-> [type |-> "OverflowError"]]
    ELSE IF F64IsIntegral(b) /\ F64Below1e15(b)
         THEN [ok |-> TRUE, val |-> [fmt |-> "int", bits |-> b]]
         ELSE [ok |-> TRUE, val |-> [fmt |-> "float", bits |-> b]]

\* ------------------------------------------------------------------------
\* Strings in the output
\* ------------------------------------------------------------------------

Has(s, c) == \E i \in 1..Len(s) : s[i] = c

\* BinaryInfParser.needs_quotes: every path returns True.
needs_quotes(s) ==
    IF Len(s) = 0 THEN TRUE
    ELSE IF Has(s, 32) \/ Has(s, 47) \/ Has(s, 92) \/ Has(s, 34) \/ Has(s, 61) THEN TRUE
    ELSE TRUE

\* s.replace('"', '\\"')
RECURSIVE EscapeQuotes(_)
EscapeQuotes(s) ==
    IF s = <<>> THEN <<>>
    ELSE (IF Head(s) = 34 THEN <<92, 34>> ELSE <<Head(s)>>) \o EscapeQuotes(Tail(s))

\* BinaryInfParser.fmt_string
fmt_string(s) == IF needs_quotes(s) THEN <<34>> \o EscapeQuotes(s) \o <<34>> ELSE s

\* A value of a property line that is a piece of text (a number is kept as the
\* kind of its rendering and its 8 bytes, see fmt_double).
TextValue(s) == [fmt |-> "text", text |-> s]

\* ------------------------------------------------------------------------
\* BinaryInfParser: properties
\* ------------------------------------------------------------------------

NoExc == [type |-> "none"]

\* A blob whose bytes are not skipped.
SkipBlob_not(pos, blob_len) == pos

\* self.pos += blob_len: the cursor after a blob of blob_len bytes at pos.
SkipBlob(pos, blob_len) == pos + blob_len

\* The ValueError of an unrecognised type byte giving the cursor itself.
UnknownPropertyType_at_cursor(ptype, pos) ==
    [type |-> "ValueError", what |-> "type", ptype |-> ptype, at |-> pos]

\* The ValueError of an unrecognised type byte: the cursor is one past the byte,
\* the message gives the byte's own offset.
UnknownPropertyType(ptype, pos) ==
    [type |-> "ValueError", what |-> "type", ptype |-> ptype, at |-> pos - 1]

\* No property is taken for a stored _RefID.
IsRefID_never(prop_name) == FALSE

\* prop_name == '_RefID'
IsRefID(prop_name) == prop_name = T_RefID

\* f'L"{self.get_wstr(idx)}"': the wide string between L" and ", as it is.
fmt_wstring(w) == <<76, 34>> \o w \o <<34>>

\* The value loop of parse_property: n values left at pos.  Returns the cursor
\* reached and the formatted values, or the exception and the cursor at which
\* it was raised (a failed read leaves self.pos where it was).
RECURSIVE ReadValues(_, _, _, _)
ReadValues(p, pos, n, vals) ==
    IF n = 0 THEN [ok |-> TRUE, pos |-> pos, vals |-> vals]
    ELSE LET t == U8(p.data, pos)
         IN  IF ~t.ok THEN [ok |-> FALSE, pos |-> pos, exc |-> t.exc]
             ELSE IF t.val = 0 \/ t.val = 2
             THEN LET i == U32(p.data, t.pos)
                  IN  IF ~i.ok THEN [ok |-> FALSE, pos |-> t.pos, exc |-> i.exc]
                      ELSE ReadValues(p, i.pos, n - 1,
                               Append(vals,
                                   IF t.val = 0
                                   THEN TextValue(fmt_string(get_str(p.strings, i.val)))
                                   ELSE TextValue(fmt_wstring(get_wstr(p.wstrings, i.val)))))
             ELSE IF t.val = 1
             THEN LET f == F64(p.data, t.pos)
                      d == fmt_double(f.val)
                  IN  IF ~f.ok THEN [ok |-> FALSE, pos |-> t.pos, exc |-> f.exc]
                      ELSE IF ~d.ok THEN [ok |-> FALSE, pos |-> f.pos, exc |-> d.exc]
                      ELSE ReadValues(p, f.pos, n - 1, Append(vals, d.val))
             ELSE IF t.val = 3
             THEN LET l == U32(p.data, t.pos)
                  IN  IF ~l.ok THEN [ok |-> FALSE, pos |-> t.pos, exc |-> l.exc]
                      ELSE ReadValues(p, SkipBlob(l.pos, l.val), n - 1,
                               Append(vals, TextValue(T_blob \o Decimal(l.val) \o T_gt)))
             ELSE [ok |-> FALSE, pos |-> t.pos, exc |-> UnknownPropertyType(t.val, t.pos)]

\* parse_property at pos: the cursor reached and the property (hidden when its
\* name is _RefID, where the source returns None), or the exception.
parse_property(p, pos) ==
    LET name_idx == U32(p.data, pos)
        count == U8(p.data, name_idx.pos)
        v == ReadValues(p, count.pos, count.val, <<>>)
        prop_name == get_str(p.strings, name_idx.val)
    IN  IF ~name_idx.ok THEN [ok |-> FALSE, pos |-> pos, exc |-> name_idx.exc]
        ELSE IF ~count.ok THEN [ok |-> FALSE, pos |-> name_idx.pos, exc |-> count.exc]
        ELSE IF ~v.ok THEN v
        ELSE [ok |-> TRUE, pos |-> v.pos, hidden |-> IsRefID(prop_name),
              name |-> prop_name, vals |-> v.vals]

\* ------------------------------------------------------------------------
\* BinaryInfParser: the output lines
\* ------------------------------------------------------------------------

\* f'{ind}[{name}]', f'{ind}{{', f'{ind}\t_RefID = {n}', f'{ind}\t{name} = {vals}',
\* '' and f'{ind}}}'; ind is the number of tabs.
HeadLine(ind, name) == [k |-> "head", ind |-> ind, name |-> name, n |-> 0, vals |-> <<>>]
OpenLine(ind) == [k |-> "open", ind |-> ind, name |-> <<>>, n |-> 0, vals |-> <<>>]
RefIdLine(ind, n) == [k |-> "refid", ind |-> ind + 1, name |-> T_RefID, n |-> n, vals |-> <<>>]
PropLine(ind, name, vals) == [k |-> "prop", ind |-> ind + 1, name |-> name, n |-> 0, vals |-> vals]
BlankLine == [k |-> "blank", ind |-> 0, name |-> <<>>, n |-> 0, vals |-> <<>>]
CloseLine(ind) == [k |-> "close", ind |-> ind, name |-> <<>>, n |-> 0, vals |-> <<>>]

\* ------------------------------------------------------------------------
\* BinaryInfParser: the recursive descent, one activation record per frame
\* ------------------------------------------------------------------------

\* An activation of parse_root_object / parse_child_object ("object"), or of
\* parse_section in its container or inline branch, with its loop counters.
Frame(k, indent, props, kids) ==
    [k |-> k, indent |-> indent, props_left |-> props, kids_left |-> kids]

Top(p) == p.stack[Len(p.stack)]
Pop(stack) == SubSeq(stack, 1, Len(stack) - 1)
SetTop(stack, f) == [stack EXCEPT ![Len(stack)] = f]

\* next_refid without its increment.
next_refid_no_increment(counter) == counter

\* next_refid: the counter after the increment is the value returned.
next_refid(counter) == counter + 1

\* The line that follows the property loop: an object adds a blank line when it
\* has properties or children, an inline section when it has both.
AfterProps(k, prop_count, child_count) ==
    IF k = "object"
    THEN IF prop_count > 0 \/ child_count > 0 THEN <<BlankLine>> ELSE <<>>
    ELSE IF prop_count > 0 /\ child_count > 0 THEN <<BlankLine>> ELSE <<>>

\* parse(): any exception of the descent is re-raised as a ValueError that
\* carries self.pos.
Raise(p, pos, e) ==
    [p EXCEPT !.pos = pos, !.phase = "raised",
              !.exc = [type |-> "ValueError", what |-> "parse", pos |-> pos, cause |-> e]]

\* BinaryInfParser.__init__
New(data) ==
    LET t == LoadStringTables(data)
        base == [cls |-> "BinaryInfParser", data |-> data, pos |-> 0,
                 strings |-> <<>>, wstrings |-> <<>>, refid_counter |-> 0,
                 stack |-> <<>>, lines |-> <<>>, phase |-> "ready", exc |-> NoExc,
                 sections_left |-> 0]
    IN  IF t.ok THEN [base EXCEPT !.strings = t.strings, !.wstrings = t.wstrings]
        ELSE [base EXCEPT !.phase = "init_raised", !.exc = t.exc]

\* parse() up to the property loop of parse_root_object.
ParseRootStep(p) ==
    LET prop_count == U32(p.data, 16)
        child_count == U32(p.data, prop_count.pos)
        refid == next_refid(p.refid_counter)
    IN  IF ~prop_count.ok THEN Raise(p, 16, prop_count.exc)
        ELSE IF ~child_count.ok THEN Raise(p, prop_count.pos, child_count.exc)
        ELSE [p EXCEPT
                !.pos = child_count.pos,
                !.phase = "parsing",
                !.refid_counter = refid,
                !.lines = <<HeadLine(0, get_str(p.strings, 0)), OpenLine(0), RefIdLine(0, refid)>>
                          \o (IF prop_count.val = 0
                              THEN AfterProps("object", 0, child_count.val) ELSE <<>>),
                !.stack = <<Frame("object", 0, prop_count.val, child_count.val)>>]

\* One iteration of a property loop (root object, child object, inline section).
ParsePropertyStep(p) ==
    LET f == Top(p)
        r == parse_property(p, p.pos)
        last == f.props_left = 1
    IN  IF ~r.ok THEN Raise(p, r.pos, r.exc)
        ELSE [p EXCEPT
                !.pos = r.pos,
                !.lines = p.lines
                          \o (IF r.hidden THEN <<>> ELSE <<PropLine(f.indent, r.name, r.vals)>>)
                          \o (IF last THEN AfterProps(f.k, 1, f.kids_left) ELSE <<>>),
                !.stack = SetTop(p.stack, [f EXCEPT !.props_left = f.props_left - 1])]

\* The branch taken on the section's name: a name without " : " is a container.
IsContainer_by_name(second_field, section_name) ==
    ~\E i \in 1..(Len(section_name) - 2) : SubSeq(section_name, i, i + 2) = T_sep

\* `if second_field == 0`: the section is a container; its name plays no part.
IsContainer(second_field, section_name) == second_field = 0

\* parse_section up to its loop: the u32 after name_idx selects the branch.
ParseSectionStep(p) ==
    LET f == Top(p)
        ind == f.indent + 1
        name_idx == U32(p.data, p.pos)
        second_field == U32(p.data, name_idx.pos)
        third == U32(p.data, second_field.pos)
        section_name == get_str(p.strings, name_idx.val)
        caller == SetTop(p.stack, [f EXCEPT !.kids_left = f.kids_left - 1])
        opening == <<HeadLine(ind, section_name), OpenLine(ind), BlankLine>>
    IN  IF ~name_idx.ok THEN Raise(p, p.pos, name_idx.exc)
        ELSE IF ~second_field.ok THEN Raise(p, name_idx.pos, second_field.exc)
        ELSE IF ~third.ok THEN Raise(p, second_field.pos, third.exc)
        ELSE IF IsContainer(second_field.val, section_name)
        THEN [p EXCEPT
                !.pos = third.pos,
                !.lines = p.lines \o opening,
                !.stack = Append(caller, Frame("container", ind, 0, third.val))]
        ELSE [p EXCEPT
                !.pos = third.pos,
                !.lines = p.lines \o opening,
                !.stack = Append(caller, Frame("inline", ind, second_field.val, third.val))]

\* parse_child_object up to its property loop.
ParseChildObjectStep(p) ==
    LET f == Top(p)
        ind == f.indent + 1
        class_idx == U32(p.data, p.pos)
        prop_count == U32(p.data, class_idx.pos)
        child_count == U32(p.data, prop_count.pos)
        refid == next_refid(p.refid_counter)
        caller == SetTop(p.stack, [f EXCEPT !.kids_left = f.kids_left - 1])
    IN  IF ~class_idx.ok THEN Raise(p, p.pos, class_idx.exc)
        ELSE IF ~prop_count.ok THEN Raise(p, class_idx.pos, prop_count.exc)
        ELSE IF ~child_count.ok THEN Raise(p, prop_count.pos, child_count.exc)
        ELSE [p EXCEPT
                !.pos = child_count.pos,
                !.refid_counter = refid,
                !.lines = p.lines
                          \o <<HeadLine(ind, get_str(p.strings, class_idx.val)),
                               OpenLine(ind), RefIdLine(ind, refid)>>
                          \o (IF prop_count.val = 0
                              THEN AfterProps("object", 0, child_count.val) ELSE <<>>),
                !.stack = Append(caller, Frame("object", ind, prop_count.val, child_count.val))]

\* The end of an object or section: its closing brace, and the return to the caller.
EndBlockStep(p) ==
    [p EXCEPT !.lines = Append(p.lines, CloseLine(Top(p).indent)),
              !.stack = Pop(p.stack)]

\* parse() returns the text: the lines joined by CRLF after a leading CRLF.
ReturnStep(p) == [p EXCEPT !.phase = "returned"]

\* ------------------------------------------------------------------------
\* Input documents, laid out as the format notes at the head of the source
\* describe them
\* ------------------------------------------------------------------------

RECURSIVE Flat(_)
Flat(ss) == IF ss = <<>> THEN <<>> ELSE Head(ss) \o Flat(Tail(ss))


\* All sequences over S of length at most n.
SeqUpTo(S, n) == UNION {[1..k -> S] : k \in 0..n}

\* The nodes of a document tree: a child object, and a section in its two
\* variants.
Obj(cls, props, secs) == [cls |-> cls, props |-> props, secs |-> secs]
Container(name, objs) == [kind |-> "container", name |-> name, objs |-> objs, props |-> <<>>, secs |-> <<>>]
Inline(name, props, secs) == [kind |-> "inline", name |-> name, objs |-> <<>>, props |-> props, secs |-> secs]

\* A value: its type byte and its payload bytes.
EncValue(v) == <<v.t>> \o v.payload

\* A property: name_idx, count, the values.
EncProperty(pr) ==
    Pack32(pr.name) \o <<Len(pr.vals)>> \o Flat([i \in 1..Len(pr.vals) |-> EncValue(pr.vals[i])])

EncProperties(props) == Flat([i \in 1..Len(props) |-> EncProperty(props[i])])

\* An object body (prop_count, child_count, properties, child sections), a child
\* object (class_idx and the body) and a section in either variant.  `more` is
\* added to the stored prop_count: 0 in a well-formed document.
RECURSIVE EncBody(_, _, _), EncSection(_)
EncBody(props, secs, more) ==
    Pack32(Len(props) + more) \o Pack32(Len(secs)) \o EncProperties(props)
        \o Flat([i \in 1..Len(secs) |-> EncSection(secs[i])])

EncSection(s) ==
    IF s.kind = "container"
    THEN Pack32(s.name) \o Pack32(0) \o Pack32(Len(s.objs))
             \o Flat([i \in 1..Len(s.objs) |->
                        Pack32(s.objs[i].cls) \o EncBody(s.objs[i].props, s.objs[i].secs, 0)])
    ELSE Pack32(s.name) \o EncBody(s.props, s.secs, 0)

\* The number of objects (root and child objects) of a document tree.
RECURSIVE CountObjects(_)
CountObjects(secs) ==
    IF secs = <<>> THEN 0
    ELSE LET s == Head(secs)
         IN  (IF s.kind = "container"
              THEN Len(s.objs) + CountObjects(Flat([i \in 1..Len(s.objs) |-> s.objs[i].secs]))
              ELSE CountObjects(s.secs))
             + CountObjects(Tail(secs))

\* The properties of a document tree, and those among them stored under the
\* name at index 1 of the string table (_RefID in every table used).
RECURSIVE CountProps(_), CountStored(_)
CountProps(secs) ==
    IF secs = <<>> THEN 0
    ELSE LET s == Head(secs)
         IN  Len(s.props) + CountProps(s.secs)
             + CountProps([i \in 1..Len(s.objs) |-> Inline(0, s.objs[i].props, s.objs[i].secs)])
             + CountProps(Tail(secs))

StoredIn(props) == Cardinality({i \in 1..Len(props) : props[i].name = 1})

CountStored(secs) ==
    IF secs = <<>> THEN 0
    ELSE LET s == Head(secs)
         IN  StoredIn(s.props) + CountStored(s.secs)
             + CountStored([i \in 1..Len(s.objs) |-> Inline(0, s.objs[i].props, s.objs[i].secs)])
             + CountStored(Tail(secs))

\* The string table block and the wide-string block.
EncStrings(count, strs) == Pack32(count) \o Flat([i \in 1..Len(strs) |-> strs[i] \o <<0>>])
EncWStrings(ws) ==
    Pack32(Len(ws)) \o Flat([i \in 1..Len(ws) |-> Pack32(Len(ws[i]) \div 2) \o ws[i]])

\* A decompressed document: the string-table offset, 12 header bytes (the u32 at
\* offset 8 is `count`), the body, then the tables.
Layout(count, body, table) ==
    Pack32(16 + Len(body)) \o Pack32(0) \o Pack32(count) \o Pack32(0) \o body \o table

\* --- the tables used -----------------------------------------------------

B_R == <<82>>                          \* "R"
B_N == <<78>>                          \* "N"
B_A == <<65>>                          \* "A"
B_RefID == <<95, 82, 101, 102, 73, 68>>
B_Class == <<82, 32, 58, 32, 99>>      \* "R : c"

\* 4 strings, 2 wide strings: "W" and "WA".
TableFull == EncStrings(4, <<B_R, B_RefID, B_N, B_A>>) \o EncWStrings(<<<<87, 0>>, <<87, 0, 65, 0>>>>)
\* 4 strings, 3 wide strings: an unpaired surrogate (U+D800), "W", and the pair
\* U+D800 U+DC00 (U+10000).
TableSurrogate ==
    EncStrings(4, <<B_R, B_RefID, B_N, B_A>>)
        \o EncWStrings(<<<<0, 216>>, <<87, 0>>, <<0, 216, 0, 220>>>>)
\* The same strings and no wide-string block.
TableNoWide == EncStrings(4, <<B_R, B_RefID, B_N, B_A>>)
\* A count of 5 with 3 terminated strings and an unterminated rest.
TableShort == EncStrings(5, <<B_Class, B_RefID, B_N>>) \o <<65, 65>>
\* A wide-string block whose second entry declares more characters than remain.
TableWideShort == EncStrings(2, <<B_R, B_RefID>>) \o Pack32(2) \o Pack32(1) \o <<87, 0>> \o Pack32(9) \o <<87, 0>>

Tables == {TableFull, TableNoWide, TableShort, TableWideShort}

\* Strings that hold a double quote: string 3 is `a "b`, string 2 is `N"`, wide
\* string 0 is `"W`.
TableQuote ==
    EncStrings(4, <<B_R, B_RefID, <<78, 34>>, <<97, 32, 34, 98>>>>) \o EncWStrings(<<<<34, 0, 87, 0>>>>)

\* The tables of the documents whose decode stays within the body.
ValidTables == Tables \cup {TableSurrogate, TableQuote}

\* --- the values and properties used --------------------------------------

D_3 == <<0, 0, 0, 0, 0, 0, 8, 64>>             \* 3.0
D_3_5 == <<0, 0, 0, 0, 0, 0, 12, 64>>          \* 3.5
D_1e20 == <<64, 140, 181, 120, 29, 175, 21, 68>>   \* 1e20
D_inf == <<0, 0, 0, 0, 0, 0, 240, 127>>        \* float('inf')

VStr(i) == [t |-> 0, payload |-> Pack32(i)]
VNum(d) == [t |-> 1, payload |-> d]
VWide(i) == [t |-> 2, payload |-> Pack32(i)]
VBlob(declared, bytes) == [t |-> 3, payload |-> Pack32(declared) \o bytes]
VBad(t) == [t |-> t, payload |-> <<>>]

Prop(name, vals) == [name |-> name, vals |-> vals]

P_Name == Prop(2, <<VStr(3)>>)                          \* N = "A"
P_RefID == Prop(1, <<VNum(D_3)>>)                       \* a stored _RefID = 3
P_RefIDStr == Prop(1, <<VStr(3), VStr(2)>>)             \* a stored _RefID = "A", "N"
P_WideBlob == Prop(3, <<VWide(0), VBlob(2, <<9, 9>>), VWide(1)>>)
P_Empty == Prop(9, <<>>)                                \* no value, name out of range
P_Mixed == Prop(2, <<VNum(D_3_5), VStr(300), VWide(5), VNum(D_1e20)>>)
P_Inf == Prop(2, <<VNum(D_inf)>>)
P_Blob == Prop(3, <<VBlob(3, <<9, 9, 9>>)>>)

\* --- the document trees ---------------------------------------------------

LeafObjs == {Obj(3, <<>>, <<>>), Obj(8, <<P_RefID, P_Name>>, <<>>)}

\* Sections of leaf objects, and inline sections without children.
Secs1 ==
    {Container(2, objs) : objs \in SeqUpTo(LeafObjs, MaxObjs)}
        \cup {Inline(0, <<P_Name>>, <<>>), Inline(3, <<P_RefIDStr, P_Name>>, <<>>)}

\* Sections that nest: a container whose first object has a section of its own,
\* and an inline section with child sections.  (An inline section has at least
\* one property: a stored prop_count of 0 is what marks a container.)
Secs2 ==
    {Container(3, <<Obj(2, <<P_Name>>, <<s>>), Obj(3, <<>>, <<>>)>>) : s \in Secs1}
        \cup {Inline(2, <<P_RefID>>, <<s>>) : s \in Secs1}
        \cup {Inline(2, <<P_WideBlob>>, <<s, Container(0, <<Obj(0, <<>>, <<>>)>>)>>) : s \in Secs1}

RootProps ==
    {<<>>, <<P_Name>>, <<P_RefID, P_Name>>, <<P_Name, P_RefID>>, <<P_WideBlob, P_RefIDStr>>,
     <<P_Empty, P_Mixed>>, <<P_Name, P_Inf>>, <<P_Name, P_Blob>>}

\* A root: its properties and its sections.
Trees ==
    {[props |-> <<>>, secs |-> ss] : ss \in SeqUpTo(Secs1, MaxSecs)}
        \cup {[props |-> <<P_Name>>, secs |-> <<s>>] : s \in Secs2}
        \cup {[props |-> <<>>, secs |-> <<s1, s2>>] : s1 \in Secs2, s2 \in {Container(2, <<Obj(3, <<>>, <<>>)>>)}}
        \cup {[props |-> pl, secs |-> ss] :
                 pl \in RootProps,
                 ss \in {<<>>, <<Container(2, <<Obj(3, <<P_Name>>, <<>>)>>)>>}}

\* The well-formed object-dialect documents.  With TableShort string 0, which
\* names sections, is "R : c".
ValidDocs ==
    {[kind |-> "valid", tree |-> t, at |-> 0,
      data |-> Layout(1, EncBody(t.props, t.secs, 0), TableFull)] : t \in Trees}
        \cup {[kind |-> "valid", tree |-> t, at |-> 0,
               data |-> Layout(1, EncBody(t.props, t.secs, 0), tb)] :
                 tb \in ValidTables,
                 t \in {[props |-> pl, secs |-> <<>>] : pl \in RootProps}}
        \cup {[kind |-> "valid", tree |-> t, at |-> 0,
               data |-> Layout(1, EncBody(t.props, t.secs, 0), TableShort)] :
                 t \in {[props |-> <<P_Name>>, secs |-> <<s>>] : s \in Secs2}}

\* ------------------------------------------------------------------------
\* SimpleInfParser
\* ------------------------------------------------------------------------

\* SimpleInfParser.format_value: a string is quoted when it holds a space, a
\* slash, a backslash or a comma; a number's int(val) raises on inf and NaN.
format_value(val) ==
    IF val.str
    THEN [ok |-> TRUE,
          val |-> TextValue(IF Has(val.v, 32) \/ Has(val.v, 47) \/ Has(val.v, 92) \/ Has(val.v, 44)
                            THEN <<34>> \o val.v \o <<34>> ELSE val.v)]
    ELSE IF ~F64IsFinite(val.v) THEN [ok |-> FALSE, exc |-> [type |-> "OverflowError"]]
    ELSE IF F64IsIntegral(val.v) THEN [ok |-> TRUE, val |-> [fmt |-> "int", bits |-> val.v]]
    ELSE [ok |-> TRUE, val |-> [fmt |-> "float", bits |-> val.v]]

\* The value loop of parse_properties: value number v of val_count at pos, the
\* type tag read before the first value being vtype.  A tag other than 0 and 1
\* reads nothing and appends nothing.
RECURSIVE SimpleReadValues(_, _, _, _, _, _)
SimpleReadValues(p, pos, v, val_count, vtype, vals) ==
    IF v = val_count THEN [ok |-> TRUE, pos |-> pos, vals |-> vals]
    ELSE LET t == IF v > 0 THEN U8(p.data, pos)
                  ELSE [ok |-> TRUE, val |-> vtype, pos |-> pos]
         IN  IF ~t.ok THEN [ok |-> FALSE, pos |-> pos, exc |-> t.exc]
             ELSE IF t.val = 0
             THEN LET i == U32(p.data, t.pos)
                  IN  IF ~i.ok THEN [ok |-> FALSE, pos |-> t.pos, exc |-> i.exc]
                      ELSE SimpleReadValues(p, i.pos, v + 1, val_count, t.val,
                               Append(vals, [str |-> TRUE, v |-> simple_get_str(p.strings, i.val)]))
             ELSE IF t.val = 1
             THEN LET f == F64(p.data, t.pos)
                  IN  IF ~f.ok THEN [ok |-> FALSE, pos |-> t.pos, exc |-> f.exc]
                      ELSE SimpleReadValues(p, f.pos, v + 1, val_count, t.val,
                               Append(vals, [str |-> FALSE, v |-> f.val]))
             ELSE SimpleReadValues(p, t.pos, v + 1, val_count, t.val, vals)

\* SimpleInfParser.parse_properties(count) at pos: the (name, values) pairs.
RECURSIVE parse_properties(_, _, _, _)
parse_properties(p, pos, count, props) ==
    IF count = 0 THEN [ok |-> TRUE, pos |-> pos, props |-> props]
    ELSE LET name_idx == U32(p.data, pos)
             val_count == U8(p.data, name_idx.pos)
             vtype == U8(p.data, val_count.pos)
             v == SimpleReadValues(p, vtype.pos, 0, val_count.val, vtype.val, <<>>)
         IN  IF ~name_idx.ok THEN [ok |-> FALSE, pos |-> pos, exc |-> name_idx.exc]
             ELSE IF ~val_count.ok THEN [ok |-> FALSE, pos |-> name_idx.pos, exc |-> val_count.exc]
             ELSE IF ~vtype.ok THEN [ok |-> FALSE, pos |-> val_count.pos, exc |-> vtype.exc]
             ELSE IF ~v.ok THEN v
             ELSE parse_properties(p, v.pos, count - 1,
                      Append(props, [name |-> simple_get_str(p.strings, name_idx.val),
                                     vals |-> v.vals]))

\* f'\t{pname}={v1},{v2}': the formatted values of one property.
RECURSIVE FormatValues(_, _)
FormatValues(vals, acc) ==
    IF vals = <<>> THEN [ok |-> TRUE, vals |-> acc]
    ELSE LET f == format_value(Head(vals))
         IN  IF ~f.ok THEN f ELSE FormatValues(Tail(vals), Append(acc, f.val))

\* SimpleInfParser.format_section: '[name]', '{', the property lines, '}'.
RECURSIVE FormatProps(_, _)
FormatProps(props, acc) ==
    IF props = <<>> THEN [ok |-> TRUE, lines |-> acc]
    ELSE LET f == FormatValues(Head(props).vals, <<>>)
         IN  IF ~f.ok THEN f
             ELSE FormatProps(Tail(props),
                      Append(acc, [k |-> "sprop", ind |-> 1, name |-> Head(props).name,
                                   n |-> 0, vals |-> f.vals]))

format_section(name, props) ==
    LET f == FormatProps(props, <<>>)
    IN  IF ~f.ok THEN f
        ELSE [ok |-> TRUE, lines |-> <<HeadLine(0, name), OpenLine(0)>> \o f.lines \o <<CloseLine(0)>>]

\* SimpleInfParser raises what the failing statement raised: nothing wraps it.
SimpleRaise(p, pos, e) == [p EXCEPT !.pos = pos, !.phase = "raised", !.exc = e]

\* SimpleInfParser.__init__
SimpleNew(data) ==
    LET t == LoadStrings(data)
        base == [cls |-> "SimpleInfParser", data |-> data, pos |-> 0,
                 strings |-> <<>>, wstrings |-> <<>>, refid_counter |-> 0,
                 stack |-> <<>>, lines |-> <<>>, phase |-> "ready", exc |-> NoExc,
                 sections_left |-> 0]
    IN  IF t.ok THEN [base EXCEPT !.strings = t.strings]
        ELSE [base EXCEPT !.phase = "init_raised", !.exc = t.exc]

\* One section: [name_idx unless it is section 0], prop_count, child_count, the
\* properties, and its lines.
SimpleSection(p, pos, first) ==
    LET name_idx == IF first THEN [ok |-> TRUE, val |-> 0, pos |-> pos] ELSE U32(p.data, pos)
        prop_count == U32(p.data, name_idx.pos)
        child_count == U32(p.data, prop_count.pos)
        props == parse_properties(p, child_count.pos, prop_count.val, <<>>)
        f == format_section(simple_get_str(p.strings, name_idx.val), props.props)
    IN  IF ~name_idx.ok THEN SimpleRaise(p, pos, name_idx.exc)
        ELSE IF ~prop_count.ok THEN SimpleRaise(p, name_idx.pos, prop_count.exc)
        ELSE IF ~child_count.ok THEN SimpleRaise(p, prop_count.pos, child_count.exc)
        ELSE IF ~props.ok THEN SimpleRaise(p, props.pos, props.exc)
        ELSE IF ~f.ok THEN SimpleRaise(p, props.pos, f.exc)
        ELSE [p EXCEPT !.pos = props.pos,
                       !.lines = p.lines \o (IF first THEN <<>> ELSE <<BlankLine>>) \o f.lines]

\* parse() up to the loop over the remaining sections: the header's section
\* count at offset 8, then section 0 at offset 16.
SimpleBeginStep(p) ==
    LET section_count == U32(p.data, 8)
        q == SimpleSection(p, 16, TRUE)
    IN  IF ~section_count.ok THEN SimpleRaise(p, 8, section_count.exc)
        ELSE IF q.phase = "raised" THEN q
        ELSE [q EXCEPT !.phase = "parsing",
                       !.sections_left = IF section_count.val > 1 THEN section_count.val - 1 ELSE 0]

\* One iteration of `for _ in range(1, section_count)`.
SimpleSectionStep(p) ==
    LET q == SimpleSection(p, p.pos, FALSE)
    IN  IF q.phase = "raised" THEN q
        ELSE [q EXCEPT !.sections_left = p.sections_left - 1]

\* parse() returns the text: the lines joined by CRLF, no leading CRLF.
SimpleReturnStep(p) == [p EXCEPT !.phase = "returned"]

\* --- malformed object-dialect documents -----------------------------------

\* A type byte that is none of 0, 1, 2, 3.
BadTypes == {4, 5, 255}

\* Documents whose first malformation is one bad type byte at offset `at`: in a
\* root property (after the properties `pre` and the values `good`), or in the
\* same property of a child object (24 bytes further: a section header and a
\* child object header).
BadTypeDocs ==
    {[kind |-> "badtype", tree |-> <<>>, at |-> at, ptype |-> t, data |-> data] :
        <<t, at, data>> \in
            {<<t,
               16 + 8 + (IF nested THEN 24 ELSE 0) + Len(EncProperties(pre)) + 5
                   + Len(Flat([i \in 1..Len(good) |-> EncValue(good[i])])),
               LET props == pre \o <<Prop(2, good \o <<VBad(t), VStr(3)>>), P_Name>>
               IN  Layout(1,
                       IF nested
                       THEN EncBody(<<>>, <<Container(2, <<Obj(3, props, <<>>)>>)>>, 0)
                       ELSE EncBody(props, <<>>, 0),
                       TableFull)>> :
                t \in BadTypes,
                nested \in BOOLEAN,
                pre \in {<<>>, <<P_Name>>, <<P_WideBlob, P_RefID>>},
                good \in {<<>>, <<VStr(3)>>, <<VNum(D_3), VBlob(1, <<9>>)>>}}}

\* Documents whose root declares `more` properties than it holds: the decoder
\* reads on into the string table.
OverCountDocs ==
    {[kind |-> "overcount", tree |-> <<>>, at |-> 0, ptype |-> 0,
      data |-> Layout(1, EncBody(pl, <<>>, more), tb)] :
        pl \in RootProps, more \in 1..3, tb \in Tables}

\* Documents whose last value is a blob declaring more bytes than it holds.
BlobDocs ==
    {[kind |-> "blob", tree |-> <<>>, at |-> 0, ptype |-> 0,
      data |-> Layout(1, EncBody(pre \o <<Prop(2, <<VBlob(declared, <<9>>)>>)>>, <<>>, 0), tb)] :
        pre \in {<<>>, <<P_Name>>}, declared \in {2, 7, 40, 200}, tb \in Tables}

\* Buffers cut short: a well-formed document less its last `cut` bytes.
CutDocs ==
    {[kind |-> "cut", tree |-> <<>>, at |-> 0, ptype |-> 0,
      data |-> SubSeq(Layout(1, EncBody(pl, <<>>, 0), tb), 1,
                      Len(Layout(1, EncBody(pl, <<>>, 0), tb)) - cut)] :
        pl \in {<<>>, <<P_Name>>}, tb \in Tables, cut \in 1..MaxCut}

\* Buffers whose string-table offset field is out of range, or leaves fewer than
\* 4 bytes for the string count.
BadOffsetDocs ==
    {[kind |-> "offset", tree |-> <<>>, at |-> 0, ptype |-> 0,
      data |-> Pack32(sto) \o SubSeq(Layout(1, EncBody(<<P_Name>>, <<>>, 0), TableNoWide), 5, 51)] :
        sto \in {0, 15, 16, 47, 48, 50, 51, 52, 300}}

\* --- simple-dialect documents ----------------------------------------------

\* A simple-dialect property: name_idx, val_count, then a type byte and a value
\* per value (one type byte even when there is no value).
EncSimpleProperty(pr) ==
    Pack32(pr.name) \o <<Len(pr.vals)>>
        \o (IF pr.vals = <<>> THEN <<0>>
            ELSE Flat([i \in 1..Len(pr.vals) |-> EncValue(pr.vals[i])]))

\* Section 0 has no name_idx; every section has prop_count, child_count (0) and
\* its properties.
EncSimpleSection(s, first) ==
    (IF first THEN <<>> ELSE Pack32(s.name))
        \o Pack32(Len(s.props)) \o Pack32(0)
        \o Flat([i \in 1..Len(s.props) |-> EncSimpleProperty(s.props[i])])

EncSimpleBody(secs) ==
    Flat([i \in 1..Len(secs) |-> EncSimpleSection(secs[i], i = 1)])

SimpleSecs ==
    {[name |-> 2, props |-> <<>>],
     [name |-> 3, props |-> <<Prop(2, <<VStr(3)>>)>>],
     [name |-> 7, props |-> <<Prop(1, <<VNum(D_3), VStr(9)>>), Prop(3, <<>>)>>],
     [name |-> 2, props |-> <<Prop(2, <<VNum(D_3_5), VNum(D_1e20)>>)>>],
     [name |-> 2, props |-> <<Prop(2, <<VNum(D_inf)>>)>>],
     [name |-> 2, props |-> <<Prop(2, <<VStr(3), VWide(0)>>), Prop(3, <<VStr(2)>>)>>]}

SimpleDocs ==
    {[kind |-> "simple", tree |-> <<>>, at |-> 0, ptype |-> 0,
      data |-> Layout(Len(secs) + more, EncSimpleBody(secs), tb)] :
        secs \in (SeqUpTo(SimpleSecs, MaxSecs) \ {<<>>}), more \in 0..1,
        tb \in {TableFull, TableShort, TableQuote}}

SimpleCutDocs ==
    {[kind |-> "cut", tree |-> <<>>, at |-> 0, ptype |-> 0,
      data |-> SubSeq(d.data, 1, Len(d.data) - cut)] :
        d \in {x \in SimpleDocs : Len(x.data) < 60}, cut \in 1..MaxCut}

\* A type tag that is neither 0 nor 1.
SimpleBadTypes == {2, 5, 255}

\* Simple-dialect documents, well-formed but for one type tag `t` at offset `at`:
\* in section 0, in the property after the properties `pre`, after the values
\* `good` and before the values `rest`; the properties `post` and the sections
\* `tail` follow.
SimpleBadTagDocs ==
    {[kind |-> "simpletag", tree |-> <<>>, at |-> at, ptype |-> t, data |-> data] :
        <<t, at, data>> \in
            {<<t,
               16 + 8 + Len(Flat([i \in 1..Len(pre) |-> EncSimpleProperty(pre[i])])) + 5
                   + Len(Flat([i \in 1..Len(good) |-> EncValue(good[i])])),
               Layout(1 + Len(tail),
                   EncSimpleBody(<<[name |-> 0,
                                    props |-> pre \o <<Prop(2, good \o <<VBad(t)>> \o rest)>>
                                                  \o post]>> \o tail),
                   TableFull)>> :
                t \in SimpleBadTypes,
                tail \in {<<>>, <<[name |-> 3, props |-> <<>>]>>},
                pre \in {<<>>, <<Prop(2, <<VNum(D_3)>>)>>},
                good \in {<<>>, <<VStr(3)>>},
                rest \in {<<>>, <<VStr(0)>>},
                post \in {<<>>, <<Prop(3, <<VStr(2)>>)>>}}}

\* ------------------------------------------------------------------------
\* The parsers as a state machine
\* ------------------------------------------------------------------------

\* A parser object not yet initialised on its buffer.
Fresh(cls, data) ==
    [cls |-> cls, data |-> data, pos |-> 0, strings |-> <<>>, wstrings |-> <<>>,
     refid_counter |-> 0, stack |-> <<>>, lines |-> <<>>, phase |-> "new",
     exc |-> NoExc, sections_left |-> 0]

ObjectInputs ==
    ValidDocs \cup BadTypeDocs \cup OverCountDocs \cup BlobDocs \cup CutDocs \cup BadOffsetDocs
SimpleInputs == SimpleDocs \cup SimpleCutDocs \cup BadOffsetDocs \cup SimpleBadTagDocs

\* What is known of the input by construction: its kind, the objects of its
\* tree, the offset and value of its bad type byte.
Describe(d) ==
    [kind |-> d.kind,
     objects |-> IF d.kind = "valid" THEN 1 + CountObjects(d.tree.secs) ELSE 0,
     props |-> IF d.kind = "valid"
               THEN Len(d.tree.props) + CountProps(d.tree.secs) ELSE 0,
     stored |-> IF d.kind = "valid"
                THEN StoredIn(d.tree.props) + CountStored(d.tree.secs) ELSE 0,
     at |-> d.at,
     ptype |-> IF d.kind \in {"badtype", "simpletag"} THEN d.ptype ELSE 0]

NoLookup == [table |-> "none", idx |-> 0, res |-> <<>>]
NoFile == [state |-> "none"]
\* No batch run, and no second parser object.
NoBatch == [state |-> "none"]
NoOther == [phase |-> "none"]

Init ==
    /\ \/ \E d \in ObjectInputs :
            self = Fresh("BinaryInfParser", d.data) /\ input = Describe(d)
       \/ \E d \in SimpleInputs :
            self = Fresh("SimpleInfParser", d.data) /\ input = Describe(d)
    /\ file = NoFile
    /\ run = [objects |-> 0, lookup |-> NoLookup]
    /\ batch = NoBatch /\ other = NoOther

IsBinary == self.cls = "BinaryInfParser"
IsSimple == self.cls = "SimpleInfParser"

\* BinaryInfParser(data)
Construct ==
    /\ IsBinary /\ self.phase = "new"
    /\ self' = New(self.data)
    /\ UNCHANGED <<input, file, run, batch, other>>

\* SimpleInfParser(data)
SimpleConstruct ==
    /\ IsSimple /\ self.phase = "new"
    /\ self' = SimpleNew(self.data)
    /\ UNCHANGED <<input, file, run, batch, other>>

\* parse() enters parse_root_object.
ParseRoot ==
    /\ IsBinary /\ self.phase = "ready"
    /\ self' = ParseRootStep(self)
    /\ run' = [run EXCEPT !.objects = IF self'.phase = "raised" THEN @ ELSE @ + 1]
    /\ UNCHANGED <<input, file, batch, other>>

ParseProperty ==
    /\ IsBinary /\ self.phase = "parsing" /\ self.stack # <<>>
    /\ Top(self).props_left > 0
    /\ self' = ParsePropertyStep(self)
    /\ UNCHANGED <<input, file, run, batch, other>>

ParseSection ==
    /\ IsBinary /\ self.phase = "parsing" /\ self.stack # <<>>
    /\ Top(self).k \in {"object", "inline"}
    /\ Top(self).props_left = 0 /\ Top(self).kids_left > 0
    /\ self' = ParseSectionStep(self)
    /\ UNCHANGED <<input, file, run, batch, other>>

ParseChildObject ==
    /\ IsBinary /\ self.phase = "parsing" /\ self.stack # <<>>
    /\ Top(self).k = "container" /\ Top(self).kids_left > 0
    /\ self' = ParseChildObjectStep(self)
    /\ run' = [run EXCEPT !.objects = IF self'.phase = "raised" THEN @ ELSE @ + 1]
    /\ UNCHANGED <<input, file, batch, other>>

EndBlock ==
    /\ IsBinary /\ self.phase = "parsing" /\ self.stack # <<>>
    /\ Top(self).props_left = 0 /\ Top(self).kids_left = 0
    /\ self' = EndBlockStep(self)
    /\ UNCHANGED <<input, file, run, batch, other>>

Return ==
    /\ IsBinary /\ self.phase = "parsing" /\ self.stack = <<>>
    /\ self' = ReturnStep(self)
    /\ UNCHANGED <<input, file, run, batch, other>>

SimpleBegin ==
    /\ IsSimple /\ self.phase = "ready"
    /\ self' = SimpleBeginStep(self)
    /\ UNCHANGED <<input, file, run, batch, other>>

SimpleNextSection ==
    /\ IsSimple /\ self.phase = "parsing" /\ self.sections_left > 0
    /\ self' = SimpleSectionStep(self)
    /\ UNCHANGED <<input, file, run, batch, other>>

SimpleReturn ==
    /\ IsSimple /\ self.phase = "parsing" /\ self.sections_left = 0
    /\ self' = SimpleReturnStep(self)
    /\ UNCHANGED <<input, file, run, batch, other>>

\* Indices looked up on a parser whose parse has ended.
LookupIdx == {0, 1, 2, 3, 4, 5, 300}

\* get_str(idx) / get_wstr(idx) called on the parser object.
Lookup ==
    /\ self.phase \in {"returned", "raised"}
    /\ \E idx \in LookupIdx :
         \E table \in (IF IsBinary THEN {"strings", "wstrings"} ELSE {"strings"}) :
            run' = [run EXCEPT !.lookup =
                       [table |-> table, idx |-> idx,
                        res |-> IF IsSimple THEN simple_get_str(self.strings, idx)
                                ELSE IF table = "strings" THEN get_str(self.strings, idx)
                                ELSE get_wstr(self.wstrings, idx)]]
    /\ UNCHANGED <<self, input, file, batch, other>>

Next ==
    \/ Construct
    \/ SimpleConstruct
    \/ ParseRoot
    \/ ParseProperty
    \/ ParseSection
    \/ ParseChildObject
    \/ EndBlock
    \/ Return
    \/ SimpleBegin
    \/ SimpleNextSection
    \/ SimpleReturn
    \/ Lookup

Spec == Init /\ [][Next]_vars

\* ------------------------------------------------------------------------
\* Properties of the parsers (specification Spec)
\* ------------------------------------------------------------------------

\* The string-table offset stored in bytes 0-3 of the buffer.
StoredOffset == LE32(Slice(self.data, 0, 4))

\* The numbers of the _RefID lines of the output, in output order.
RefIds(lines) ==
    LET r == SelectSeq(lines, LAMBDA l : l.k = "refid")
    IN  [i \in 1..Len(r) |-> r[i].n]

\* The property lines of the output.
PropLines(lines) == SelectSeq(lines, LAMBDA l : l.k = "prop")

\* C1: the synthesized ref-ids, in the order the objects are visited, are
\* exactly 1, 2, ..., N with N the number of objects decoded (so no two objects
\* share one); for a well-formed document that decodes, N is the number of
\* objects of its tree.
C1_RefIdsSequential ==
    IsBinary =>
        /\ RefIds(self.lines) = [i \in 1..run.objects |-> i]
        /\ (self.phase = "returned" /\ input.kind = "valid") => run.objects = input.objects

\* A nested document has decoded: five objects, numbered 1 to 5.
C1_Witness ==
    /\ IsBinary /\ self.phase = "returned" /\ input.kind = "valid"
    /\ input.objects = 5
    /\ RefIds(self.lines) = <<1, 2, 3, 4, 5>>

\* C2: when parse returns on a well-formed object-dialect buffer, the cursor
\* equals the string-table offset stored in bytes 0-3.
C2_CursorAtStringTable ==
    (IsBinary /\ input.kind = "valid" /\ self.phase = "returned") => self.pos = StoredOffset

\* A well-formed document with nested sections and a property of several
\* values (a blob among them) has decoded.
C2_Witness ==
    /\ IsBinary /\ input.kind = "valid" /\ self.phase = "returned"
    /\ self.pos = StoredOffset /\ run.objects >= 4
    /\ \E i \in 1..Len(self.lines) : self.lines[i].k = "prop" /\ Len(self.lines[i].vals) > 1

\* C3: a document whose first malformation is a type byte other than 0..3 never
\* yields text, and the error raised names that byte's value and its offset.
C3_BadTypeAborts ==
    (IsBinary /\ input.kind = "badtype") =>
        /\ self.phase # "returned"
        /\ self.phase = "raised" =>
              /\ self.exc.cause.type = "ValueError"
              /\ self.exc.cause.what = "type"
              /\ self.exc.cause.ptype = input.ptype
              /\ self.exc.cause.at = input.at

\* The decode of a document with a bad type byte in a child object has failed.
C3_Witness ==
    /\ IsBinary /\ input.kind = "badtype" /\ self.phase = "raised"
    /\ run.objects = 2
    /\ self.exc.cause.at = input.at /\ self.data[input.at + 1] = input.ptype

\* C4: a decode never succeeds with the cursor beyond the end of the buffer, and
\* a decode that fails raises an error that carries the cursor position.
C4_TruncatedReadFails ==
    /\ self.phase = "returned" => self.pos <= Len(self.data)
    /\ self.phase = "raised" => "pos" \in DOMAIN self.exc

\* C4, the blob skip alone: no decode of the object dialect succeeds with the
\* cursor beyond the end of the buffer.
C4_CursorWithinBuffer ==
    (IsBinary /\ self.phase = "returned") => self.pos <= Len(self.data)

\* C5: with 16 <= S < buffer length, loading the string table never fails.
C5_LoadNeverFails ==
    (Len(self.data) >= 4 /\ 16 <= StoredOffset /\ StoredOffset < Len(self.data))
        => self.phase # "init_raised"

\* C9: every object's first line after its brace is the synthesized _RefID line,
\* numbered from the counter, one per object; no property line is named
\* _RefID; a stored _RefID is read over, so that a well-formed document ends at
\* the string table with every other property in the output.
C9_RefIdSynthesized ==
    IsBinary =>
        /\ \A i \in 1..Len(self.lines) :
              /\ self.lines[i].k = "prop" => self.lines[i].name # T_RefID
              /\ self.lines[i].k = "refid" =>
                    /\ i >= 3
                    /\ self.lines[i - 1].k = "open" /\ self.lines[i - 2].k = "head"
                    /\ self.lines[i].n = Cardinality({j \in 1..i : self.lines[j].k = "refid"})
                    /\ self.lines[i].n <= self.refid_counter
        /\ Len(RefIds(self.lines)) = run.objects
        /\ (self.phase = "returned" /\ input.kind = "valid") =>
              /\ Len(PropLines(self.lines)) = input.props - input.stored
              /\ self.pos = StoredOffset

\* A document storing _RefID properties in several objects has decoded.
C9_Witness ==
    /\ IsBinary /\ self.phase = "returned" /\ input.kind = "valid"
    /\ input.stored >= 2 /\ run.objects >= 3
    /\ Len(PropLines(self.lines)) = input.props - input.stored

\* The number a decimal numeral denotes, -1 when the text is no numeral.
RECURSIVE ParseDecimal(_)
ParseDecimal(s) ==
    IF s = <<>> THEN -1
    ELSE LET d == s[Len(s)] - 48
             rest == SubSeq(s, 1, Len(s) - 1)
         IN  IF d < 0 \/ d > 9 THEN -1
             ELSE IF rest = <<>> THEN d
             ELSE IF ParseDecimal(rest) < 0 THEN -1
             ELSE 10 * ParseDecimal(rest) + d

\* res is prefix, the decimal numeral of idx, and ">".
IsPlaceholder(res, prefix, idx) ==
    /\ Len(res) > Len(prefix) + 1
    /\ SubSeq(res, 1, Len(prefix)) = prefix
    /\ res[Len(res)] = 62
    /\ ParseDecimal(SubSeq(res, Len(prefix) + 1, Len(res) - 1)) = idx

\* The table a lookup was made in, and the placeholder prefix of its parser.
LookupTable == IF run.lookup.table = "wstrings" THEN self.wstrings ELSE self.strings
LookupPrefix ==
    IF IsSimple THEN T_invalid
    ELSE IF run.lookup.table = "wstrings" THEN T_wstring_ ELSE T_string_

\* C10: a lookup returns the stored entry for an index within the table and a
\* placeholder that encodes the index otherwise.
C10_LookupTotal ==
    run.lookup.table # "none" =>
        IF 0 <= run.lookup.idx /\ run.lookup.idx < Len(LookupTable)
        THEN run.lookup.res = LookupTable[run.lookup.idx + 1]
        ELSE IsPlaceholder(run.lookup.res, LookupPrefix, run.lookup.idx)

\* Index 0 has resolved in a table that holds entries, and an index past the
\* end has given its placeholder.
C10_Witness ==
    /\ run.lookup.table = "strings" /\ IsBinary
    /\ Len(self.strings) = 3 /\ run.lookup.idx = 3
    /\ IsPlaceholder(run.lookup.res, T_string_, 3)

\* ------------------------------------------------------------------------
\* Classification of a file's bytes
\* ------------------------------------------------------------------------

\* MAGICS: the tags of a compressed file and their versions.
MAGICS ==
    {<<<<170, 165, 255, 255>>, 3>>, <<<<171, 165, 255, 255>>, 2>>,
     <<<<172, 165, 255, 255>>, 1>>, <<<<173, 165, 255, 255>>, 0>>}

\* MAGICS.get(magic_bytes), -1 for None.
get_version(magic_bytes) ==
    IF \E e \in MAGICS : e[1] = magic_bytes
    THEN (CHOOSE e \in MAGICS : e[1] = magic_bytes)[2]
    ELSE -1

\* sub in s, for text.
Contains(s, sub) ==
    \E i \in 1..(Len(s) - Len(sub) + 1) : SubSeq(s, i, i + Len(sub) - 1) = sub

\* The characters str.strip() removes (among those of ASCII text).
IsSpace(c) == c \in {9, 10, 11, 12, 13, 28, 29, 30, 31, 32}

\* text.strip() begins with c.
StrippedStartsWith(text, c) ==
    \E i \in 1..Len(text) : text[i] = c /\ \A j \in 1..(i - 1) : IsSpace(text[j])

\* is_text_inf.  data[:500].decode('utf-8', errors='strict') raises on the
\* non-ASCII bytes the inputs use, which is caught and leaves False.
is_text_inf(data) ==
    IF Len(data) < 20 THEN FALSE
    ELSE LET sto == LE32(Slice(data, 0, 4))
             head == Slice(data, 0, 500)
         IN  IF 16 <= sto /\ sto < Len(data) /\ Slice(data, 4, 8) = <<0, 0, 0, 0>> THEN FALSE
             ELSE IF get_version(Slice(data, 0, 4)) # -1 THEN FALSE
             ELSE IF \E i \in 1..Len(head) : head[i] >= 128 THEN FALSE
             ELSE \/ Has(head, 91) /\ Has(head, 93) /\ Has(head, 123)
                  \/ StrippedStartsWith(head, 91)
                  \/ StrippedStartsWith(head, 59)
                  \/ StrippedStartsWith(head, 35)

\* `val_08 > 1 or val_14 == 0` in place of the conjunction.
SimpleByStructure_or(val_08, val_14) == val_08 > 1 \/ val_14 = 0

\* The structural test of is_simple_format: val_08 > 1 and val_14 == 0.
SimpleByStructure(val_08, val_14) == val_08 > 1 /\ val_14 = 0

\* is_simple_format: True, False, or the struct.error of a string count that
\* the buffer does not hold in full.
is_simple_format(data) ==
    IF Len(data) < 24 THEN [ok |-> TRUE, val |-> FALSE]
    ELSE LET sto == LE32(Slice(data, 0, 4))
             val_08 == LE32(Slice(data, 8, 12))
             val_14 == LE32(Slice(data, 20, 24))
             end == Find0(data, sto + 4)
         IN  IF sto < 16 \/ sto >= Len(data) THEN [ok |-> TRUE, val |-> FALSE]
             ELSE IF SimpleByStructure(val_08, val_14) THEN [ok |-> TRUE, val |-> TRUE]
             ELSE IF Len(Slice(data, sto, sto + 4)) # 4
             THEN [ok |-> FALSE, exc |-> [type |-> "struct.error"]]
             ELSE IF LE32(Slice(data, sto, sto + 4)) = 0 THEN [ok |-> TRUE, val |-> FALSE]
             ELSE IF end = -1 THEN [ok |-> TRUE, val |-> FALSE]
             ELSE IF Contains(DecodeUtf8(Slice(data, sto + 4, end)), T_sep)
             THEN [ok |-> TRUE, val |-> FALSE]
             ELSE [ok |-> TRUE, val |-> val_08 > 1]

\* ------------------------------------------------------------------------
\* decompress_inf
\* ------------------------------------------------------------------------

\* The order with the first two strategies exchanged.
Strategies_raw_first == <<"raw", "zlib", "sized">>

\* The nested try blocks: zlib.decompress(compressed_data), then
\* zlib.decompress(compressed_data, -15), then
\* zlib.decompress(compressed_data[:compressed_size]).
Strategies == <<"zlib", "raw", "sized">>

\* What zlib makes of the payload under a strategy: the file's codec record
\* holds the outcome of each call (zlib itself is not modelled).
Outcome(f, strategy) ==
    IF strategy = "zlib" THEN f.codec.zlib
    ELSE IF strategy = "raw" THEN f.codec.raw
    ELSE f.codec.sized

\* decompress_inf up to the decompression: too small, text, a known tag, an
\* offset in range, or unknown.
ClassifyStep(f) ==
    IF Len(f.data) < 12
    THEN [f EXCEPT !.state = "done", !.kind = "small", !.result = "None"]
    ELSE IF is_text_inf(f.data)
    THEN [f EXCEPT !.state = "done", !.kind = "text", !.result = "text",
                   !.written = IF f.has_out THEN "copy" ELSE "none"]
    ELSE IF get_version(Slice(f.data, 0, 4)) = -1
    THEN LET sto == LE32(Slice(f.data, 0, 4))
         IN  IF 16 <= sto /\ sto < Len(f.data)
             THEN [f EXCEPT !.state = "have", !.kind = "binary", !.decompressed = f.data]
             ELSE [f EXCEPT !.state = "done", !.kind = "unknown", !.result = "None"]
    ELSE [f EXCEPT !.state = "unwrap", !.kind = "compressed"]

\* One attempt of the fallback chain.
TryDecompressStep(f) ==
    LET strategy == Strategies[Len(f.tried) + 1]
        o == Outcome(f, strategy)
        tried == Append(f.tried, strategy)
    IN  IF o.ok
        THEN [f EXCEPT !.tried = tried, !.used = strategy, !.decompressed = o.out,
                       !.state = "have"]
        ELSE IF Len(tried) = Len(Strategies)
        THEN [f EXCEPT !.tried = tried, !.state = "done", !.result = "False"]
        ELSE [f EXCEPT !.tried = tried]

\* `if to_text and decompressed`: an empty buffer is falsy.
WantsText(f) == f.to_text /\ f.decompressed # <<>>

\* binary_to_text up to the parser's construction: the dialect chosen.  An
\* exception of is_simple_format is caught by decompress_inf, which writes the
\* binary instead.
BinaryToTextStep(f) ==
    LET s == is_simple_format(f.decompressed)
    IN  IF ~s.ok
        THEN [f EXCEPT !.state = "done", !.dialect = "raised", !.result = "binary",
                       !.written = IF f.has_out THEN "decompressed" ELSE "none"]
        ELSE [f EXCEPT !.state = "converting",
                       !.dialect = IF s.val THEN "simple" ELSE "object"]

\* The end of the conversion: the text is written, or after an exception of the
\* parser the decompressed binary.
FinishConvertStep(f, p) ==
    IF p.phase = "returned"
    THEN [f EXCEPT !.state = "done", !.result = "converted",
                   !.written = IF f.has_out THEN "text" ELSE "none"]
    ELSE [f EXCEPT !.state = "done", !.result = "binary",
                   !.written = IF f.has_out THEN "decompressed" ELSE "none"]

\* Without conversion the decompressed bytes are written.
WriteBinaryStep(f) ==
    [f EXCEPT !.state = "done", !.result = "True",
              !.written = IF f.has_out THEN "decompressed" ELSE "none"]

\* ------------------------------------------------------------------------
\* The files given to decompress_inf
\* ------------------------------------------------------------------------

\* s followed by spaces up to n bytes.
Padded(s, n) == s \o [i \in 1..(n - Len(s)) |-> 32]

\* Files below 12 bytes.
SmallFiles == {<<>>, <<91, 65, 93>>, <<170, 165, 255, 255, 3, 0, 0, 0, 9, 0, 0>>}

\* Text of 20 bytes: "[A] {", "  ;c", "#x", and "hello" which has no marker;
\* "[A] {" with a byte that is not UTF-8; "[A] {" in 12 bytes.
TextFiles ==
    {Padded(<<91, 65, 93, 32, 123>>, 20), Padded(<<32, 32, 59, 99>>, 20),
     Padded(<<35, 120>>, 20), Padded(<<104, 101, 108, 108, 111>>, 20),
     Padded(<<91, 65, 93, 32, 123, 255>>, 20), Padded(<<91, 65, 93, 32, 123>>, 12)}

\* Documents of both dialects, whole and cut short.
FileDocs ==
    {Layout(1, EncBody(<<P_Name>>, <<>>, 0), TableFull),
     Layout(1, EncBody(<<P_Name>>, <<Inline(2, <<P_RefID>>, <<Container(0, <<Obj(0, <<>>, <<>>)>>)>>)>>, 0),
            TableShort),
     Layout(1, EncBody(<<P_Name, P_Inf>>, <<>>, 0), TableShort),
     Layout(2, EncSimpleBody(<<[name |-> 2, props |-> <<>>],
                               [name |-> 3, props |-> <<Prop(2, <<VStr(3)>>)>>]>>), TableFull),
     Layout(3, EncSimpleBody(<<[name |-> 2, props |-> <<Prop(2, <<VStr(3)>>)>>]>>), TableFull),
     SubSeq(Layout(1, EncBody(<<>>, <<>>, 0), TableNoWide), 1, 26)}

\* The tables the dialect heuristic is tried on: no string, a first string with
\* and without " : ", a first string without terminator, and a count cut short.
HeurTables ==
    {EncStrings(0, <<>>) \o EncWStrings(<<>>), TableShort, TableFull,
     EncStrings(1, <<>>) \o <<65, 65>>, <<1, 0>>}

\* Buffers with the u32 at offset 8 and the u32 at offset 20 set freely.
HeurDocs ==
    {Layout(val_08, Pack32(0) \o Pack32(val_14), tb) :
        val_08 \in 0..3, val_14 \in 0..2, tb \in HeurTables}

\* A buffer below 24 bytes with its offset in range.
ShortDoc == Pack32(16) \o Pack32(0) \o Pack32(2) \o Pack32(0) \o Pack32(0)

\* data with byte 4 set to b.
WithReserved(data, b) == SubSeq(data, 1, 4) \o <<b>> \o SubSeq(data, 6, Len(data))

\* Documents whose bytes 4-7 are not all zero; the last holds "[]{" as a string.
ReservedDocs ==
    {WithReserved(d, 1) : d \in FileDocs}
        \cup {WithReserved(Layout(1, EncBody(<<>>, <<>>, 0),
                                  EncStrings(1, <<<<91, 93, 123>>>>) \o EncWStrings(<<>>)), 7)}

\* The bytes after the 12-byte header of a compressed file, opaque here.
Payload == <<120, 156, 1, 2, 3, 4>>

\* What a zlib call gives: zlib.error, or a buffer.
Failed == [ok |-> FALSE, out |-> <<>>]
Inflated(out) == [ok |-> TRUE, out |-> out]
CodecOutcomes ==
    {Failed, Inflated(<<>>), Inflated(<<1, 2, 3>>),
     Inflated(Layout(1, EncBody(<<P_Name>>, <<>>, 0), TableFull)),
     Inflated(Layout(3, EncSimpleBody(<<[name |-> 2, props |-> <<Prop(2, <<VStr(3)>>)>>]>>),
                     TableFull))}

\* The outcomes of the three calls on a payload.  With compressed_size at or
\* above the payload's length, compressed_data[:compressed_size] is the whole
\* payload and the third call repeats the first.
Codecs(compressed_size) ==
    {c \in [zlib : CodecOutcomes, raw : CodecOutcomes, sized : CodecOutcomes] :
        compressed_size >= Len(Payload) => c.sized = c.zlib}

NoCodec == [zlib |-> Failed, raw |-> Failed, sized |-> Failed]

\* The files: their bytes, how they were made, and what zlib makes of them.
FileInputs ==
    {[kind |-> "small", data |-> d, codec |-> NoCodec] : d \in SmallFiles}
        \cup {[kind |-> "text", data |-> d, codec |-> NoCodec] : d \in TextFiles}
        \cup {[kind |-> "document", data |-> d, codec |-> NoCodec] :
                 d \in FileDocs \cup HeurDocs \cup {ShortDoc}}
        \cup {[kind |-> "reserved", data |-> d, codec |-> NoCodec] : d \in ReservedDocs}
        \cup UNION {{[kind |-> "compressed",
                       data |-> e[1] \o Pack32(cs) \o Pack32(9) \o Payload,
                       codec |-> c] : e \in MAGICS, c \in Codecs(cs)} : cs \in {3, 6}}

\* No parser object yet.
Idle == [Fresh("none", <<>>) EXCEPT !.phase = "idle"]

\* decompress_inf(input_path, output_path, to_text=...) about to run.
NewFile(d, to_text, has_out) ==
    [data |-> d.data, codec |-> d.codec, to_text |-> to_text, has_out |-> has_out,
     state |-> "start", kind |-> "", result |-> "pending", written |-> "none",
     decompressed |-> <<>>, tried |-> <<>>, used |-> "none", dialect |-> "none"]

InitFile ==
    /\ \E d \in FileInputs : \E to_text \in BOOLEAN : \E has_out \in BOOLEAN :
          /\ file = NewFile(d, to_text, has_out)
          /\ input = [kind |-> d.kind, objects |-> 0, props |-> 0, stored |-> 0,
                      at |-> 0, ptype |-> 0]
    /\ self = Idle
    /\ run = [objects |-> 0, lookup |-> NoLookup]
    /\ batch = NoBatch /\ other = NoOther

Classify ==
    /\ file.state = "start"
    /\ file' = ClassifyStep(file)
    /\ UNCHANGED <<self, input, run, batch, other>>

TryDecompress ==
    /\ file.state = "unwrap"
    /\ file' = TryDecompressStep(file)
    /\ UNCHANGED <<self, input, run, batch, other>>

\* binary_to_text(decompressed): the dialect, then the parser object.
BinaryToText ==
    /\ file.state = "have" /\ WantsText(file)
    /\ file' = BinaryToTextStep(file)
    /\ self' = IF file'.dialect = "simple" THEN Fresh("SimpleInfParser", file.decompressed)
               ELSE IF file'.dialect = "object" THEN Fresh("BinaryInfParser", file.decompressed)
               ELSE self
    /\ UNCHANGED <<input, run, batch, other>>

FinishConvert ==
    /\ file.state = "converting"
    /\ self.phase \in {"returned", "raised", "init_raised"}
    /\ file' = FinishConvertStep(file, self)
    /\ UNCHANGED <<self, input, run, batch, other>>

WriteBinary ==
    /\ file.state = "have" /\ ~WantsText(file)
    /\ file' = WriteBinaryStep(file)
    /\ UNCHANGED <<self, input, run, batch, other>>

NextFile ==
    \/ Classify
    \/ TryDecompress
    \/ BinaryToText
    \/ Construct
    \/ SimpleConstruct
    \/ ParseRoot
    \/ ParseProperty
    \/ ParseSection
    \/ ParseChildObject
    \/ EndBlock
    \/ Return
    \/ SimpleBegin
    \/ SimpleNextSection
    \/ SimpleReturn
    \/ FinishConvert
    \/ WriteBinary

SpecFile == InitFile /\ [][NextFile]_vars

\* ------------------------------------------------------------------------
\* Properties of decompress_inf (specification SpecFile)
\* ------------------------------------------------------------------------

\* The calls made so far are the first ones of zlib, raw, sized, in that order.
TriedInOrder ==
    /\ Len(file.tried) <= 3
    /\ \A i \in 1..Len(file.tried) : file.tried[i] = <<"zlib", "raw", "sized">>[i]

\* C6: the strategies are attempted in the order zlib on the whole payload, raw
\* deflate on the whole payload, zlib on the first compressed_size bytes; every
\* attempt but the last one made has failed; the buffer carried on is the
\* result of the last attempt, which succeeded; and a compressed file ends
\* with False exactly when all three calls fail, with nothing written.
C6_OrderedFallback ==
    /\ TriedInOrder
    /\ \A i \in 1..(Len(file.tried) - 1) : ~Outcome(file, file.tried[i]).ok
    /\ file.used # "none" =>
          /\ file.used = file.tried[Len(file.tried)]
          /\ Outcome(file, file.used).ok
          /\ file.decompressed = Outcome(file, file.used).out
    /\ file.state = "done" /\ file.kind = "compressed" =>
          (file.result = "False"
              <=> ~file.codec.zlib.ok /\ ~file.codec.raw.ok /\ ~file.codec.sized.ok)
    /\ file.result = "False" =>
          file.kind = "compressed" /\ file.written = "none" /\ Len(file.tried) = 3

\* The third strategy succeeded after the first two failed, and its result was
\* written.
C6_Witness ==
    /\ file.state = "done" /\ file.used = "sized" /\ file.tried = <<"zlib", "raw", "sized">>
    /\ file.written = "decompressed" /\ file.decompressed # <<>>

\* C7: a buffer is taken for decompressed binary only if its bytes 4-7 are zero.
C7_BinaryOnlyIfReservedZero ==
    file.kind = "binary" => Slice(file.data, 4, 8) = <<0, 0, 0, 0>>

\* The buffer binary_to_text was given, and its fields.
HeurOffset == LE32(Slice(file.decompressed, 0, 4))
HeurVal08 == LE32(Slice(file.decompressed, 8, 12))
HeurVal14 == LE32(Slice(file.decompressed, 20, 24))
\* The buffer has its 24 header bytes and the 4 bytes of its string count.
HeurComplete ==
    /\ Len(file.decompressed) >= 24
    /\ 16 <= HeurOffset /\ HeurOffset + 4 <= Len(file.decompressed)
\* The first entry of the string table as the loader reads it, if it has one.
HeurHasFirst == LoadStringTables(file.decompressed).strings # <<>>
HeurFirst == LoadStringTables(file.decompressed).strings[1]

\* C8 as stated: simple if the u32 at 8 is > 1 and the u32 at 20 is 0;
\* otherwise object if the first string-table entry contains " : "; otherwise
\* simple if the u32 at 8 is > 1, else object.
C8_RuleAsStated ==
    file.dialect # "none" /\ HeurComplete =>
        (file.dialect = "simple"
            <=> \/ HeurVal08 > 1 /\ HeurVal14 = 0
                \/ /\ ~(HeurHasFirst /\ Contains(HeurFirst, T_sep))
                   /\ HeurVal08 > 1)

\* The bytes from offset S + 4 up to the first NUL byte, when the string count
\* is not 0 and there is such a byte.
HeurCount == LE32(Slice(file.decompressed, HeurOffset, HeurOffset + 4))
HeurTerminated == \E i \in (HeurOffset + 5)..Len(file.decompressed) : file.decompressed[i] = 0
HeurEntry ==
    LET end == CHOOSE i \in (HeurOffset + 5)..Len(file.decompressed) :
                   /\ file.decompressed[i] = 0
                   /\ \A j \in (HeurOffset + 5)..(i - 1) : file.decompressed[j] # 0
    IN  SubSeq(file.decompressed, HeurOffset + 5, end - 1)

\* C8 amended: a buffer below 24 bytes, or whose offset S is below 16 or not
\* below its length, is object.  Otherwise it is simple if the u32 at 8 is > 1
\* and the u32 at 20 is 0; otherwise the choice fails with an error if fewer
\* than 4 bytes follow S; otherwise it is object if the string count is 0, if
\* no NUL byte follows S + 4, or if the bytes up to the first NUL contain
\* " : "; otherwise simple if the u32 at 8 is > 1, else object.
C8_DialectRule ==
    file.dialect # "none" =>
        LET inRange == /\ Len(file.decompressed) >= 24
                       /\ 16 <= HeurOffset /\ HeurOffset < Len(file.decompressed)
            structural == HeurVal08 > 1 /\ HeurVal14 = 0
            counted == HeurOffset + 4 <= Len(file.decompressed)
        IN  /\ file.dialect = "raised" <=> inRange /\ ~structural /\ ~counted
            /\ file.dialect = "simple" <=>
                  /\ inRange
                  /\ \/ structural
                     \/ /\ counted /\ HeurCount # 0 /\ HeurTerminated
                        /\ ~Contains(DecodeUtf8(HeurEntry), T_sep)
                        /\ HeurVal08 > 1

\* A buffer with count field > 1, non-zero field at offset 20 and a first
\* string without " : " was classified simple.
C8_Witness ==
    /\ file.dialect = "simple" /\ HeurVal08 > 1 /\ HeurVal14 # 0
    /\ HeurHasFirst /\ ~Contains(HeurFirst, T_sep)

\* ------------------------------------------------------------------------
\* process_directory
\* ------------------------------------------------------------------------

\* Files in one batch.
MaxFiles == 2

\* stats with the else branch left out: a None result counts nowhere.
Tally_no_else(stats, result) ==
    IF result = "True" THEN [stats EXCEPT !.decompressed = @ + 1]
    ELSE IF result = "converted" THEN [stats EXCEPT !.converted = @ + 1]
    ELSE IF result = "text" THEN [stats EXCEPT !.text = @ + 1]
    ELSE IF result = "binary" THEN [stats EXCEPT !.binary = @ + 1]
    ELSE IF result = "False" THEN [stats EXCEPT !.error = @ + 1]
    ELSE stats

\* The if/elif chain on the result of decompress_inf.
Tally(stats, result) ==
    IF result = "True" THEN [stats EXCEPT !.decompressed = @ + 1]
    ELSE IF result = "converted" THEN [stats EXCEPT !.converted = @ + 1]
    ELSE IF result = "text" THEN [stats EXCEPT !.text = @ + 1]
    ELSE IF result = "binary" THEN [stats EXCEPT !.binary = @ + 1]
    ELSE IF result = "False" THEN [stats EXCEPT !.error = @ + 1]
    ELSE [stats EXCEPT !.skipped = @ + 1]

\* stats = {'decompressed': 0, ...}
NoStats ==
    [decompressed |-> 0, converted |-> 0, text |-> 0, binary |-> 0, error |-> 0, skipped |-> 0]

\* The files a directory may hold: too small, text, unknown, one that no
\* strategy decompresses, one that decompresses to a document with sections,
\* one that decompresses to bytes that are no document, a simple-dialect
\* document, and a document cut short.
BatchFiles ==
    {[kind |-> "small", data |-> <<91, 65, 93>>, codec |-> NoCodec],
     [kind |-> "text", data |-> Padded(<<91, 65, 93, 32, 123>>, 20), codec |-> NoCodec],
     [kind |-> "text", data |-> Padded(<<104, 101, 108, 108, 111>>, 20), codec |-> NoCodec],
     [kind |-> "compressed", data |-> <<170, 165, 255, 255>> \o Pack32(6) \o Pack32(9) \o Payload,
      codec |-> NoCodec],
     [kind |-> "compressed", data |-> <<171, 165, 255, 255>> \o Pack32(6) \o Pack32(9) \o Payload,
      codec |-> [NoCodec EXCEPT !.raw = Inflated(
          Layout(1, EncBody(<<P_Name>>,
                            <<Inline(2, <<P_RefID>>, <<Container(0, <<Obj(0, <<>>, <<>>)>>)>>)>>, 0),
                 TableShort))]],
     [kind |-> "compressed", data |-> <<173, 165, 255, 255>> \o Pack32(3) \o Pack32(9) \o Payload,
      codec |-> [NoCodec EXCEPT !.sized = Inflated(<<1, 2, 3>>)]],
     [kind |-> "document",
      data |-> Layout(2, EncSimpleBody(<<[name |-> 2, props |-> <<>>],
                                         [name |-> 3, props |-> <<Prop(2, <<VStr(3)>>)>>]>>),
                      TableFull),
      codec |-> NoCodec],
     [kind |-> "document",
      data |-> SubSeq(Layout(1, EncBody(<<>>, <<>>, 0), TableNoWide), 1, 26), codec |-> NoCodec]}

\* process_directory(..., to_text=...) with all_files enumerated.
InitBatch ==
    /\ \E files \in SeqUpTo(BatchFiles, MaxFiles) : \E to_text \in BOOLEAN :
          batch = [state |-> "loop", files |-> files, to_text |-> to_text, index |-> 0,
                   stats |-> NoStats]
    /\ input = [kind |-> "batch", objects |-> 0, props |-> 0, stored |-> 0, at |-> 0, ptype |-> 0]
    /\ file = NoFile
    /\ self = Idle
    /\ run = [objects |-> 0, lookup |-> NoLookup]
    /\ other = NoOther

\* The loop takes the next file and calls decompress_inf on it with an output
\* path.
BatchNext ==
    /\ batch.state = "loop" /\ batch.index < Len(batch.files)
    /\ file' = NewFile(batch.files[batch.index + 1], batch.to_text, TRUE)
    /\ self' = Idle
    /\ batch' = [batch EXCEPT !.state = "running"]
    /\ UNCHANGED <<input, run, other>>

\* decompress_inf has returned: its result is counted.
BatchTally ==
    /\ batch.state = "running" /\ file.state = "done"
    /\ batch' = [batch EXCEPT !.state = "loop", !.index = @ + 1,
                              !.stats = Tally(batch.stats, file.result)]
    /\ UNCHANGED <<self, input, file, run, other>>

\* The loop has ended: the totals are printed.
BatchDone ==
    /\ batch.state = "loop" /\ batch.index = Len(batch.files)
    /\ batch' = [batch EXCEPT !.state = "done"]
    /\ UNCHANGED <<self, input, file, run, other>>

NextBatch ==
    \/ BatchNext
    \/ Classify
    \/ TryDecompress
    \/ BinaryToText
    \/ Construct
    \/ SimpleConstruct
    \/ ParseRoot
    \/ ParseProperty
    \/ ParseSection
    \/ ParseChildObject
    \/ EndBlock
    \/ Return
    \/ SimpleBegin
    \/ SimpleNextSection
    \/ SimpleReturn
    \/ FinishConvert
    \/ WriteBinary
    \/ BatchTally
    \/ BatchDone

SpecBatch == InitBatch /\ [][NextBatch]_vars

\* The guards of the parser steps: a parser object is under construction or in
\* its parse.  While one holds the step it guards is the only step possible,
\* and the step changes the parser object (its cursor, its frames or its phase).
ParserRunning ==
    (IsBinary \/ IsSimple) /\ self.phase \in {"new", "ready", "parsing"}

\* The interpreter runs on: a step that can be taken is taken.  For the steps
\* of decompress_inf and of the loop this is weak fairness of each; for the
\* steps of the parsers it is weak fairness written out over their guards and
\* their effect on the parser object.
SpecBatchFair ==
    /\ SpecBatch
    /\ WF_vars(BatchNext) /\ WF_vars(BatchTally) /\ WF_vars(BatchDone)
    /\ WF_vars(Classify) /\ WF_vars(TryDecompress) /\ WF_vars(BinaryToText)
    /\ WF_vars(FinishConvert) /\ WF_vars(WriteBinary)
    /\ \/ []<>(~ParserRunning)
       \/ []<><<ParserRunning /\ self' # self>>_vars

\* The sum of the six counters.
StatsSum ==
    batch.stats.decompressed + batch.stats.converted + batch.stats.text
        + batch.stats.binary + batch.stats.error + batch.stats.skipped

\* The files among the first n of the batch that no strategy decompresses.
Undecompressable(n) ==
    {i \in 1..n : /\ batch.files[i].kind = "compressed"
                  /\ ~batch.files[i].codec.zlib.ok /\ ~batch.files[i].codec.raw.ok
                  /\ ~batch.files[i].codec.sized.ok}

\* The counters of a batch under way: they sum to the files processed so far,
\* and the error counter holds the files that failed to decompress.
BatchCounted ==
    /\ batch.index <= Len(batch.files)
    /\ StatsSum = batch.index
    /\ batch.stats.error = Cardinality(Undecompressable(batch.index))
    /\ batch.stats.skipped >=
          Cardinality({i \in 1..batch.index : batch.files[i].kind = "small"})

\* C11: at every moment the six counters sum to the number of files processed
\* so far, whatever the results were, and the run eventually ends with every
\* file of the list processed.
C11_BatchProcessesAll ==
    /\ []BatchCounted
    /\ <>(batch.state = "done" /\ batch.index = Len(batch.files))

\* A batch has ended whose first file failed to decompress and whose second
\* file failed to decode and was written as binary.
C11_Witness ==
    /\ batch.state = "done" /\ Len(batch.files) = 2 /\ batch.index = 2
    /\ 1 \in Undecompressable(2)
    /\ batch.stats.error = 1 /\ batch.stats.binary = 1

\* ------------------------------------------------------------------------
\* Two parser objects
\* ------------------------------------------------------------------------

\* A counter kept on the class: an object sees the larger of the two counts.
Own_class_counter(p, q) ==
    [p EXCEPT !.refid_counter = IF q.refid_counter > @ THEN q.refid_counter ELSE @]

\* What a method reaches through `self`: __init__ assigns data, pos, strings,
\* wstrings and refid_counter on the object, so the attributes of p are its
\* own whatever another object q holds.
Own(p, q) == p

\* The construction or parse of a BinaryInfParser has not ended.
Running(p) == p.phase \in {"new", "ready", "parsing"}

\* The next step of a BinaryInfParser object: its construction, then parse()
\* through the calls of its recursive descent.
BinaryStep(p) ==
    IF p.phase = "new" THEN New(p.data)
    ELSE IF p.phase = "ready" THEN ParseRootStep(p)
    ELSE IF p.stack = <<>> THEN ReturnStep(p)
    ELSE IF Top(p).props_left > 0 THEN ParsePropertyStep(p)
    ELSE IF Top(p).kids_left = 0 THEN EndBlockStep(p)
    ELSE IF Top(p).k = "container" THEN ParseChildObjectStep(p)
    ELSE ParseSectionStep(p)

\* The buffers of the two objects: two documents with sections and child
\* objects, one with an unknown type byte, one cut short.
PairDocs ==
    {Layout(1, EncBody(<<P_Name>>,
                       <<Inline(2, <<P_RefID>>, <<Container(0, <<Obj(0, <<>>, <<>>)>>)>>)>>, 0),
            TableShort),
     Layout(1, EncBody(<<P_Name, P_WideBlob>>,
                       <<Container(2, <<Obj(3, <<P_Name>>, <<>>), Obj(3, <<>>, <<>>)>>)>>, 0),
            TableFull),
     Layout(1, EncBody(<<Prop(2, <<VStr(3), VBad(4)>>)>>, <<>>, 0), TableFull),
     SubSeq(Layout(1, EncBody(<<>>, <<>>, 0), TableNoWide), 1, 26)}

\* Two objects, each about to be constructed on its own buffer.
InitPair ==
    /\ \E a \in PairDocs : \E b \in PairDocs :
          /\ self = Fresh("BinaryInfParser", a)
          /\ other = Fresh("BinaryInfParser", b)
    /\ input = [kind |-> "pair", objects |-> 0, props |-> 0, stored |-> 0, at |-> 0, ptype |-> 0]
    /\ file = NoFile
    /\ batch = NoBatch
    /\ run = [objects |-> 0, lookup |-> NoLookup]

\* A step of the second object, whenever the scheduler gives it one.
OtherStep ==
    /\ Running(other)
    /\ other' = BinaryStep(Own(other, self))
    /\ UNCHANGED <<self, input, file, run, batch>>

NextPair ==
    \/ Construct
    \/ ParseRoot
    \/ ParseProperty
    \/ ParseSection
    \/ ParseChildObject
    \/ EndBlock
    \/ Return
    \/ OtherStep

SpecPair == InitPair /\ [][NextPair]_vars

\* The states an object goes through when it runs alone, from p on.
RECURSIVE Alone(_)
Alone(p) == IF Running(p) THEN {p} \cup Alone(BinaryStep(p)) ELSE {p}

AtSection ==
    /\ IsBinary /\ self.phase = "parsing" /\ self.stack # <<>>
    /\ Top(self).k \in {"object", "inline"}
    /\ Top(self).props_left = 0 /\ Top(self).kids_left > 0

\* The text holds " : ".
HasSep(text) == \E i \in 1..(Len(text) - 2) : SubSeq(text, i, i + 2) = T_sep

\* The u32 at offset o of the buffer being parsed.
WordAt(o) == LE32(Slice(self.data, o, o + 4))

\* C13: a call of parse_section that does not fail reads 12 bytes - name_idx,
\* the u32 after it, one more u32 - and opens a container when the u32 after
\* name_idx is 0 and an inline section otherwise: the container expects as many
\* child objects as the third u32 says and no property, the inline section as
\* many properties as the second u32 and as many child sections as the third.
\* The section's name only gives the header line.
C13_DiscriminatorDecides ==
    [][(AtSection /\ self'.phase = "parsing") =>
          /\ self'.pos = self.pos + 12
          /\ Len(self'.stack) = Len(self.stack) + 1
          /\ Top(self').k = (IF WordAt(self.pos + 4) = 0 THEN "container" ELSE "inline")
          /\ Top(self').props_left = WordAt(self.pos + 4)
          /\ Top(self').kids_left = WordAt(self.pos + 8)
          /\ self'.lines[Len(self'.lines) - 2].k = "head"
          /\ self'.lines[Len(self'.lines) - 2].name = get_str(self.strings, WordAt(self.pos))
      ]_vars

\* A section named "R : c" whose second field is 0 has been opened as a
\* container, inside an inline section whose name has no " : ".
C13_Witness ==
    /\ IsBinary /\ self.phase = "parsing" /\ Len(self.stack) >= 3
    /\ Top(self).k = "container" /\ self.stack[Len(self.stack) - 1].k = "inline"
    /\ self.lines[Len(self.lines)].k = "blank"
    /\ HasSep(self.lines[Len(self.lines) - 2].name)
    /\ \E i \in 1..(Len(self.lines) - 3) :
          /\ self.lines[i].k = "head" /\ self.lines[i].ind = 1
          /\ ~HasSep(self.lines[i].name)

\* ------------------------------------------------------------------------
\* Unknown type tags in both dialects (specification Spec)
\* ------------------------------------------------------------------------

\* The input's one malformation is a type tag its dialect does not know.
HasUnknownTag ==
    \/ IsBinary /\ input.kind = "badtype"
    \/ IsSimple /\ input.kind = "simpletag"

\* C14: in either dialect, a document with a type tag the dialect does not know
\* never yields text, and the error raised gives the offset of the tag.
C14_UnknownTagAborts ==
    HasUnknownTag =>
        /\ self.phase # "returned"
        /\ self.phase = "raised" =>
              /\ "cause" \in DOMAIN self.exc
              /\ self.exc.cause.type = "ValueError"
              /\ self.exc.cause.at = input.at

\* C14, what SimpleInfParser does instead: every document whose one malformation
\* is a type tag other than 0 and 1 is decoded to the end and text is returned,
\* the tagged value missing from its property line.
C14_SimpleSkipsUnknownTag ==
    (IsSimple /\ input.kind = "simpletag") =>
        /\ self.phase \notin {"raised", "init_raised"}
        /\ self.phase = "returned" =>
              /\ self.data[input.at + 1] = input.ptype
              /\ self.pos = StoredOffset

\* ------------------------------------------------------------------------
\* Quoted values in the output (specification Spec)
\* ------------------------------------------------------------------------

\* The values written so far that are text.
TextValues ==
    UNION {{self.lines[i].vals[j].text :
               j \in {j \in 1..Len(self.lines[i].vals) : self.lines[i].vals[j].fmt = "text"}} :
           i \in 1..Len(self.lines)}

\* "..." and L"...": what stands between the quotes, for a value that is quoted.
IsQuoted(t) == Len(t) >= 2 /\ t[1] = 34 /\ t[Len(t)] = 34
IsWideQuoted(t) == Len(t) >= 3 /\ t[1] = 76 /\ t[2] = 34 /\ t[Len(t)] = 34
Inside(t) == IF IsQuoted(t) THEN SubSeq(t, 2, Len(t) - 1) ELSE SubSeq(t, 3, Len(t) - 1)

\* Every double quote of the text has a backslash before it.
QuotesEscaped(body) ==
    \A i \in 1..Len(body) : body[i] = 34 => (i > 1 /\ body[i - 1] = 92)

\* C15: in every quoted value written, of either dialect, with or without the
\* L prefix, each double quote between the enclosing quotes has a backslash
\* before it.
C15_QuotesEscaped ==
    \A t \in TextValues : (IsQuoted(t) \/ IsWideQuoted(t)) => QuotesEscaped(Inside(t))

\* C15, the part fmt_string is responsible for: the quoted plain-string values of
\* the object dialect have their double quotes escaped.
C15_ObjectStringsEscaped ==
    IsBinary => \A t \in TextValues : IsQuoted(t) => QuotesEscaped(Inside(t))

\* C15, the quoting rule of the simple dialect: a value is written in quotes
\* exactly when it holds a space, a slash, a backslash or a comma.
C15_SimpleQuotingRule ==
    IsSimple =>
        \A t \in TextValues :
            \/ IsQuoted(t) /\ \E c \in {32, 47, 92, 44} : Has(Inside(t), c)
            \/ ~IsQuoted(t) /\ ~\E c \in {32, 47, 92, 44} : Has(t, c)

\* ------------------------------------------------------------------------
\* Numbers in the output (specification Spec)
\* ------------------------------------------------------------------------

\* The values written so far that are numbers: the kind of the rendering
\* ("int" for str(int(v)), "float" for str(v)) and the 8 bytes of the value.
NumberValues ==
    UNION {{self.lines[i].vals[j] :
               j \in {j \in 1..Len(self.lines[i].vals) : self.lines[i].vals[j].fmt # "text"}} :
           i \in 1..Len(self.lines)}

\* C16: in either dialect a number is written as a plain integer exactly when
\* its value is integral and its magnitude is below 1e15.
C16_IntegerRendering ==
    \A n \in NumberValues :
        (n.fmt = "int") <=> (F64IsIntegral(n.bits) /\ F64Below1e15(n.bits))

\* C16, the part fmt_double is responsible for: the rule holds for the numbers
\* of the object dialect.
C16_ObjectNumbers ==
    IsBinary => \A n \in NumberValues :
                    (n.fmt = "int") <=> (F64IsIntegral(n.bits) /\ F64Below1e15(n.bits))

\* C16, what SimpleInfParser.format_value does instead: a number is written as
\* a plain integer exactly when its value is integral, whatever its magnitude.
C16_SimpleNumbers ==
    IsSimple => \A n \in NumberValues : (n.fmt = "int") <=> F64IsIntegral(n.bits)

====
